---- MODULE Spec2Model ----
(***************************************************************************)
(* Polymarket enrichment-and-scoring pipeline.                             *)
(*                                                                         *)
(*   fill_price_deltas  (src/src/polymarket_cli/api/clob.py)               *)
(*   score_outcome, find_best_trade  (src/recommend.py)                    *)
(*                                                                         *)
(* Fixed-point units used for the floats of the program:                   *)
(*   price        cents            (0.40  -> 40)                           *)
(*   history "p"  1e-5             (0.43004 -> 43004)                      *)
(*   price_delta  1e-4             (0.05  -> 500), the grid of round(_, 4) *)
(*   mid_distance 1e-2             (0.80  -> 80)                           *)
(*   log1p        1                (the volumes used have ln(1+v) within   *)
(*                                  0.002 of an integer)                   *)
(*   score        1e-6             (-999.0 -> -999000000)                  *)
(*   time         hours                                                    *)
(* Python indexes from 0, TLA+ sequences from 1: a task keeps the code's   *)
(* 0-based i and the model reads outcomes[i + 1].                          *)
(***************************************************************************)
EXTENDS Integers, Sequences, FiniteSets, TLC

VARIABLES
    events,     \* the Event/Market/Outcome tree handed to the pipeline
    snapshot,   \* the tree as the snapshot provider delivered it (never changes)
    pc,         \* fill_price_deltas: "init", "await", "returned", "raised"
    sem,        \* asyncio.Semaphore(20)._value
    tasks,      \* clob.py:40 tasks, each (event, market, i, task)
    awaitIdx,   \* position of the loop of clob.py:52 (1-based)
    issued,     \* history requests sent so far: set of <<e, m, i>>
    writeLog,   \* outcomes whose price_delta was assigned, in order
    allFailed,  \* no history request has produced a delta so far
    cnt,        \* the tasks of a large batch, counted by position
    scoreArgs,  \* arguments of a call of score_outcome
    scoreRet,   \* what that call did
    bestRet     \* what find_best_trade did

vars == <<events, snapshot, pc, sem, tasks, awaitIdx, issued, writeLog,
          allFailed, cnt, scoreArgs, scoreRet, bestRet>>

fillVars == <<events, snapshot, pc, sem, tasks, awaitIdx, issued, writeLog, allFailed>>

(***************************************************************************)
(* Bounds of the model.                                                    *)
(***************************************************************************)
MaxFillEvents == 2
MaxFillMarkets == 2
MaxFillTasks == 4
MaxBatchMarkets == 10
MaxFairMarkets == 6

(***************************************************************************)
(* Data model (models.py).                                                 *)
(***************************************************************************)
Outcome(name, price, price_delta, token_id) ==
    [name |-> name, price |-> price, price_delta |-> price_delta, token_id |-> token_id]

Market(id, outcomes) == [id |-> id, outcomes |-> outcomes]

Event(slug, volume, volume_24hr, end_date, markets) ==
    [slug |-> slug, title |-> <<"title", slug>>, volume |-> volume, volume_24hr |-> volume_24hr,
     end_date |-> end_date, markets |-> markets]

\* The empty string, the default of token_id and of end_date.
EMPTY == ""

NoDate == [kind |-> "empty", t |-> 0, tz |-> ""]

(***************************************************************************)
(* _fetch_price_delta (clob.py:11-24).                                     *)
(***************************************************************************)
\* What the history provider can do with one request.
Histories == { <<>>, <<50000>>, <<40000, 43004>>, <<43000, 44100, 41006>> }

Responses ==
    {[kind |-> k, history |-> <<>>] :
        k \in {"connect_error", "timeout", "bad_status", "malformed_body", "no_history_key"}}
    \cup {[kind |-> "ok", history |-> h] : h \in Histories}

\* round(x, 4) of a value in 1e-5 units, as a value in 1e-4 units.
Round4(x) == (x + 5) \div 10

\* The body of the try block: what it raises, or what it returns.
TryBody(resp) ==
    CASE resp.kind = "connect_error"  -> [raises |-> "httpx.ConnectError", value |-> 0]
      [] resp.kind = "timeout"        -> [raises |-> "httpx.TimeoutException", value |-> 0]
      [] resp.kind = "bad_status"     -> [raises |-> "httpx.HTTPStatusError", value |-> 0]
      [] resp.kind = "malformed_body" -> [raises |-> "ValueError", value |-> 0]
      [] OTHER ->
            IF Len(resp.history) < 2
            THEN [raises |-> "", value |-> 0]
            ELSE [raises |-> "",
                  value |-> Round4(resp.history[Len(resp.history)] - resp.history[1])]

ExceptHttpxOnly(exc) == exc \in {"httpx.ConnectError", "httpx.TimeoutException", "httpx.HTTPStatusError"}

\* except Exception: every exception the body can raise is an Exception.
ExceptException(exc) ==
    exc \in {"httpx.ConnectError", "httpx.TimeoutException", "httpx.HTTPStatusError", "ValueError"}

fetch_price_delta(resp) ==
    LET r == TryBody(resp) IN
    IF r.raises # "" /\ ExceptException(r.raises)
    THEN [raises |-> "", value |-> 0]
    ELSE r

\* The request produced a delta from a history of two points or more.
Succeeded(resp) == resp.kind = "ok" /\ Len(resp.history) >= 2

(***************************************************************************)
(* The limiter of fill_price_deltas (clob.py:33, 35-37).                   *)
(***************************************************************************)
SEM_PERMITS == 20

SemCanAcquireUnbounded(value) == TRUE

\* Semaphore.acquire proceeds only while the value is positive.
SemCanAcquire(value) == value > 0

SemAcquire(value) == value - 1

SemExitNeverReleases(value, resp) == value

SemExitLeakOnFailure(value, resp) == IF Succeeded(resp) THEN value + 1 ELSE value

\* async with sem: __aexit__ releases however the body ended.
SemExit(value, resp) == value + 1

(***************************************************************************)
(* Task creation (clob.py:42-49).                                          *)
(***************************************************************************)
FIRST_N == 5

SliceFirstSix(outcomes) == SubSeq(outcomes, 1, IF Len(outcomes) < FIRST_N + 1 THEN Len(outcomes) ELSE FIRST_N + 1)

\* market.outcomes[:5]
SliceFirst(outcomes) == SubSeq(outcomes, 1, IF Len(outcomes) < FIRST_N THEN Len(outcomes) ELSE FIRST_N)

\* if outcome.token_id:
HasToken(outcome) == outcome.token_id # EMPTY

NewTaskFromOne(e, m, i, token_id) ==
    [e |-> e, m |-> m, i |-> i + 1, token_id |-> token_id,
     state |-> "created", result |-> [raises |-> "", value |-> 0]]

NewTaskIndexZero(e, m, i, token_id) ==
    [e |-> e, m |-> m, i |-> 0, token_id |-> token_id,
     state |-> "created", result |-> [raises |-> "", value |-> 0]]

\* clob.py:46-49: the task of outcome i of market m of event e.
NewTask(e, m, i, token_id) ==
    [e |-> e, m |-> m, i |-> i, token_id |-> token_id,
     state |-> "created", result |-> [raises |-> "", value |-> 0]]

RECURSIVE OutcomeTasks(_, _, _, _)
OutcomeTasks(e, m, sliced, k) ==
    IF k > Len(sliced) THEN <<>>
    ELSE (IF HasToken(sliced[k])
          THEN <<NewTask(e, m, k - 1, sliced[k].token_id)>>
          ELSE <<>>) \o OutcomeTasks(e, m, sliced, k + 1)

RECURSIVE MarketTasks(_, _, _)
MarketTasks(e, markets, m) ==
    IF m > Len(markets) THEN <<>>
    ELSE OutcomeTasks(e, m, SliceFirst(markets[m].outcomes), 1) \o MarketTasks(e, markets, m + 1)

RECURSIVE EventTasks(_, _)
EventTasks(evts, e) ==
    IF e > Len(evts) THEN <<>>
    ELSE MarketTasks(e, evts[e].markets, 1) \o EventTasks(evts, e + 1)

CreateTasks(evts) == EventTasks(evts, 1)

(***************************************************************************)
(* Inputs of the enrichment: trees as the snapshot provider builds them    *)
(* (gamma.py:31-53: price_delta = 0.0, token_id possibly "").              *)
(***************************************************************************)
\* Token patterns of one market: TRUE is an outcome with a token.
TokenPatterns ==
    { <<TRUE, FALSE>>, <<TRUE, FALSE, TRUE, TRUE, FALSE, TRUE, TRUE>> }

TokenId(e, m, i) == <<"token", e, m, i>>

SnapshotMarket(e, m, pattern) ==
    Market(<<e, m>>,
           [k \in 1..Len(pattern) |->
               Outcome(<<e, m, k - 1>>, 40, 0,
                       IF pattern[k] THEN TokenId(e, m, k - 1) ELSE EMPTY)])

SnapshotEvent(e, patterns) ==
    Event(e, 1202603, 59873, NoDate,
          [m \in 1..Len(patterns) |-> SnapshotMarket(e, m, patterns[m])])

SeqsUpTo(S, n) == UNION {[1..k -> S] : k \in 0..n}

FillShapes == SeqsUpTo(SeqsUpTo(TokenPatterns, MaxFillMarkets), MaxFillEvents)

RECURSIVE NumMarkets(_, _)
NumMarkets(evts, e) ==
    IF e > Len(evts) THEN 0 ELSE Len(evts[e].markets) + NumMarkets(evts, e + 1)

\* At most MaxFillEvents events with MaxFillMarkets markets between them,
\* giving at most MaxFillTasks tasks.
FillInputs ==
    {evts \in {[e \in 1..Len(s) |-> SnapshotEvent(e, s[e])] : s \in FillShapes} :
        /\ NumMarkets(evts, 1) <= MaxFillMarkets
        /\ Len(CreateTasks(evts)) <= MaxFillTasks}

(***************************************************************************)
(* fill_price_deltas, every task followed on its own (SpecFill).           *)
(***************************************************************************)
IdleCnt == [n |-> 0, created |-> 0, inflight |-> 0, done |-> 0, awaited |-> 0]

NoCall == [called |-> FALSE]

InitFill ==
    /\ events \in FillInputs
    /\ snapshot = events
    /\ pc = "init"
    /\ sem = SEM_PERMITS
    /\ tasks = <<>>
    /\ awaitIdx = 1
    /\ issued = {}
    /\ writeLog = <<>>
    /\ allFailed = TRUE
    /\ cnt = IdleCnt
    /\ scoreArgs = NoCall
    /\ scoreRet = NoCall
    /\ bestRet = NoCall

\* clob.py:33-49: the semaphore, the client and one task per eligible outcome;
\* nothing is awaited between the creations.
FillStart ==
    /\ pc = "init"
    /\ tasks' = CreateTasks(events)
    /\ sem' = SEM_PERMITS
    /\ awaitIdx' = 1
    /\ pc' = "await"
    /\ UNCHANGED <<events, snapshot, issued, writeLog, allFailed, cnt, scoreArgs, scoreRet, bestRet>>

\* clob.py:36-37, 14: a task enters async with sem and sends its request.
TaskAcquire(t) ==
    /\ pc \in {"await", "returned", "raised"}
    /\ tasks[t].state = "created"
    /\ SemCanAcquire(sem)
    /\ sem' = SemAcquire(sem)
    /\ tasks' = [tasks EXCEPT ![t].state = "inflight"]
    /\ issued' = issued \cup {<<tasks[t].e, tasks[t].m, tasks[t].i>>}
    /\ UNCHANGED <<events, snapshot, pc, awaitIdx, writeLog, allFailed, cnt, scoreArgs, scoreRet, bestRet>>

\* clob.py:14-24, 37: the request resolves, _fetch_price_delta ends and
\* the task leaves async with sem.
TaskComplete(t, resp) ==
    /\ tasks[t].state = "inflight"
    /\ tasks' = [tasks EXCEPT ![t].state = "done", ![t].result = fetch_price_delta(resp)]
    /\ sem' = SemExit(sem, resp)
    /\ allFailed' = (allFailed /\ ~Succeeded(resp))
    /\ UNCHANGED <<events, snapshot, pc, awaitIdx, issued, writeLog, cnt, scoreArgs, scoreRet, bestRet>>

LoopDoneEarly(idx, ts) == idx >= Len(ts)

\* for market, i, task in tasks: exhausted
LoopDone(idx, ts) == idx > Len(ts)

\* clob.py:52-53: market.outcomes[i].price_delta = await task
AwaitTask ==
    /\ pc = "await"
    /\ ~LoopDone(awaitIdx, tasks)
    /\ tasks[awaitIdx].state = "done"
    /\ LET task == tasks[awaitIdx] IN
       IF task.result.raises # ""
       THEN /\ pc' = "raised"
            /\ UNCHANGED <<events, writeLog, awaitIdx>>
       ELSE /\ events' = [events EXCEPT
                  ![task.e].markets[task.m].outcomes[task.i + 1].price_delta = task.result.value]
            /\ writeLog' = Append(writeLog, <<task.e, task.m, task.i>>)
            /\ awaitIdx' = awaitIdx + 1
            /\ pc' = pc
    /\ UNCHANGED <<snapshot, sem, tasks, issued, allFailed, cnt, scoreArgs, scoreRet, bestRet>>

\* clob.py:39, 53: the loop is over, the client closes, the call returns.
FillReturn ==
    /\ pc = "await"
    /\ LoopDone(awaitIdx, tasks)
    /\ pc' = "returned"
    /\ UNCHANGED <<events, snapshot, sem, tasks, awaitIdx, issued, writeLog, allFailed, cnt, scoreArgs, scoreRet, bestRet>>

NextFill ==
    \/ FillStart
    \/ \E t \in 1..Len(tasks) : TaskAcquire(t)
    \/ \E t \in 1..Len(tasks), resp \in Responses : TaskComplete(t, resp)
    \/ AwaitTask
    \/ FillReturn

SpecFill == InitFill /\ [][NextFill]_vars

(***************************************************************************)
(* fill_price_deltas on a large batch (SpecBatch): more eligible outcomes  *)
(* than permits.  The tasks run the same coroutine, so they are counted by *)
(* position (created, inside async with sem, done) instead of followed one *)
(* by one; cnt.awaited is the number of iterations of clob.py:52-53 done.  *)
(***************************************************************************)
\* A market of six outcomes, each with a token.
FullPattern == <<TRUE, TRUE, TRUE, TRUE, TRUE, TRUE>>

BatchInputs == {<<SnapshotEvent(1, [m \in 1..k |-> FullPattern])>> : k \in 0..MaxBatchMarkets}

InitBatch ==
    /\ events \in BatchInputs
    /\ snapshot = events
    /\ pc = "init"
    /\ sem = SEM_PERMITS
    /\ tasks = <<>>
    /\ awaitIdx = 1
    /\ issued = {}
    /\ writeLog = <<>>
    /\ allFailed = TRUE
    /\ cnt = IdleCnt
    /\ scoreArgs = NoCall
    /\ scoreRet = NoCall
    /\ bestRet = NoCall

\* clob.py:33-49
BatchStart ==
    /\ pc = "init"
    /\ cnt' = [IdleCnt EXCEPT !.n = Len(CreateTasks(events)), !.created = Len(CreateTasks(events))]
    /\ sem' = SEM_PERMITS
    /\ pc' = "await"
    /\ UNCHANGED <<events, snapshot, tasks, awaitIdx, issued, writeLog, allFailed, scoreArgs, scoreRet, bestRet>>

\* clob.py:36-37, 14
BatchAcquire ==
    /\ cnt.created > 0
    /\ SemCanAcquire(sem)
    /\ sem' = SemAcquire(sem)
    /\ cnt' = [cnt EXCEPT !.created = @ - 1, !.inflight = @ + 1]
    /\ UNCHANGED <<events, snapshot, pc, tasks, awaitIdx, issued, writeLog, allFailed, scoreArgs, scoreRet, bestRet>>

\* clob.py:14-24, 37
BatchComplete(resp) ==
    /\ cnt.inflight > 0
    /\ sem' = SemExit(sem, resp)
    /\ cnt' = [cnt EXCEPT !.inflight = @ - 1, !.done = @ + 1]
    /\ allFailed' = (allFailed /\ ~Succeeded(resp))
    /\ UNCHANGED <<events, snapshot, pc, tasks, awaitIdx, issued, writeLog, scoreArgs, scoreRet, bestRet>>

\* clob.py:52-53: one more task awaited; it must have ended.
BatchAwait ==
    /\ pc = "await"
    /\ cnt.awaited < cnt.n
    /\ cnt.awaited < cnt.done
    /\ cnt' = [cnt EXCEPT !.awaited = @ + 1]
    /\ UNCHANGED <<events, snapshot, pc, sem, tasks, awaitIdx, issued, writeLog, allFailed, scoreArgs, scoreRet, bestRet>>

\* clob.py:39, 53
BatchReturn ==
    /\ pc = "await"
    /\ cnt.awaited = cnt.n
    /\ pc' = "returned"
    /\ UNCHANGED <<events, snapshot, sem, tasks, awaitIdx, issued, writeLog, allFailed, cnt, scoreArgs, scoreRet, bestRet>>

NextBatch ==
    \/ BatchStart
    \/ BatchAcquire
    \/ \E resp \in Responses : BatchComplete(resp)
    \/ BatchAwait
    \/ BatchReturn

SpecBatch == InitBatch /\ [][NextBatch]_vars

\* The same batch under the scheduling of the asyncio event loop: the loop
\* runs every coroutine that is ready (the caller at clob.py:42 and :52, a
\* task whose Semaphore.acquire can proceed), and every request sent
\* resolves (a response, an error, or the client's timeout of clob.py:39).
BatchFairness ==
    /\ WF_vars(BatchStart)
    /\ WF_vars(BatchAcquire)
    /\ WF_vars(\E resp \in Responses : BatchComplete(resp))
    /\ WF_vars(BatchAwait)
    /\ WF_vars(BatchReturn)

\* One event of up to MaxFairMarkets markets of six outcomes with tokens.
InitBatchFair ==
    /\ InitBatch
    /\ Len(events[1].markets) <= MaxFairMarkets

SpecBatchFair == InitBatchFair /\ [][NextBatch]_vars /\ BatchFairness

(***************************************************************************)
(* score_outcome (recommend.py:52-83).                                     *)
(***************************************************************************)
\* return -999.0, in 1e-6 units
SENTINEL == -999000000

\* datetime.now(timezone.utc), in hours
NOW == 1000

\* timedelta(days=3), in hours
THREE_DAYS == 72

\* An end_date string: kind "empty" is "", "garbage" is a string that is no
\* ISO-8601 timestamp, "iso" is the wall-clock time t followed by the suffix tz
\* ("" for a timestamp without offset).
EndDate(kind, t, tz) == [kind |-> kind, t |-> t, tz |-> tz]

\* event.end_date.replace("Z", "+00:00")
ReplaceZ(d) == IF d.tz = "Z" THEN [d EXCEPT !.tz = "+00:00"] ELSE d

\* Hours east of UTC of an offset suffix.
TzOffset(tz) == CASE tz = "+00:00" -> 0 [] tz = "+05:00" -> 5 [] OTHER -> 0

\* datetime.fromisoformat: ValueError for a string it cannot read (before
\* Python 3.11 a trailing "Z" among them), else a datetime, aware exactly when
\* an offset was given.
FromIsoFormat(d) ==
    IF d.kind # "iso" \/ d.tz = "Z"
    THEN [raises |-> "ValueError", aware |-> FALSE, utc |-> 0]
    ELSE [raises |-> "", aware |-> d.tz # "", utc |-> d.t - TzOffset(d.tz)]

\* round(ln(e^(k - 0.5))) boundaries: LnThresholds[k] is the least 1 + v
\* with ln(1 + v) >= k - 0.5.
LnThresholds ==
    <<2, 5, 13, 34, 91, 245, 666, 1809, 4915, 13360, 36316, 98716, 268338, 729417, 1982760>>

\* math.log1p(v), to the nearest integer.
Log1p(v) == Cardinality({k \in DOMAIN LnThresholds : 1 + v >= LnThresholds[k]})

Abs(x) == IF x < 0 THEN -x ELSE x

Max(a, b) == IF a >= b THEN a ELSE b

\* recommend.py:80-81, in 1e-2 units, price in cents.
MidDistance(price) == Max(100 - Abs(price - 50) * 2, 1)

Return(v) == [raises |-> "", value |-> v]

Raise(exc) == [raises |-> exc, value |-> 0]

\* recommend.py:66
PriceGate(price) == price < 2 \/ price > 90

VolumeGateInclusive(event) == 10 * event.volume_24hr >= 6 * event.volume

\* recommend.py:68: event.volume_24hr > event.volume * 0.6
VolumeGate(event) == 10 * event.volume_24hr > 6 * event.volume

CompositeOfPrice(event, price, delta) == (price * 100) * Log1p(event.volume_24hr) * MidDistance(price)

\* recommend.py:78-83
Composite(event, price, delta) == delta * Log1p(event.volume_24hr) * MidDistance(price)

\* recommend.py:70-76: "gated", "pass", or the exception that leaves the try.
DateGate(event) ==
    IF event.end_date.kind = "empty" THEN "pass"
    ELSE LET closes == FromIsoFormat(ReplaceZ(event.end_date)) IN
         IF closes.raises = "ValueError" THEN "pass"
         ELSE IF ~closes.aware THEN "TypeError"
         ELSE IF closes.utc - NOW < THREE_DAYS THEN "gated"
         ELSE "pass"

score_outcome(event, outcome_name, price, delta) ==
    IF delta <= 0 THEN Return(SENTINEL)
    ELSE IF PriceGate(price) THEN Return(SENTINEL)
    ELSE IF VolumeGate(event) THEN Return(SENTINEL)
    ELSE LET g == DateGate(event) IN
         IF g = "gated" THEN Return(SENTINEL)
         ELSE IF g # "pass" THEN Raise(g)
         ELSE Return(Composite(event, price, delta))

(***************************************************************************)
(* find_best_trade (recommend.py:86-109).                                  *)
(***************************************************************************)
None == [kind |-> "None"]

Candidate(event, o, s) ==
    [kind |-> "Candidate", event_title |-> event.title, event_slug |-> event.slug,
     outcome_name |-> o.name, price |-> o.price, delta |-> o.price_delta,
     event_vol_24h |-> event.volume_24hr, score |-> s]

RECURSIVE Flatten(_, _)
Flatten(markets, m) ==
    IF m > Len(markets) THEN <<>> ELSE markets[m].outcomes \o Flatten(markets, m + 1)

\* recommend.py:90
AllOutcomes(event) == Flatten(event.markets, 1)

\* recommend.py:92
IsActive(o) == 2 < o.price /\ o.price < 90

Active(event) == SelectSeq(AllOutcomes(event), IsActive)

SkipNegativeOnly(s) == s < 0

\* recommend.py:96
Skip(s) == s <= 0

ReplacesOnTie(best, s) == best = None \/ s >= best.score

\* recommend.py:98
Replaces(best, s) == best = None \/ s > best.score

\* recommend.py:94-107: the loop over active from position k on; an exception
\* of score_outcome ends the whole call.
RECURSIVE ScanActive(_, _, _, _)
ScanActive(event, active, k, best) ==
    IF k > Len(active) THEN [raises |-> "", best |-> best]
    ELSE LET o == active[k]
             s == score_outcome(event, o.name, o.price, o.price_delta)
         IN IF s.raises # "" THEN [raises |-> s.raises, best |-> best]
            ELSE IF Skip(s.value) THEN ScanActive(event, active, k + 1, best)
            ELSE IF Replaces(best, s.value)
                 THEN ScanActive(event, active, k + 1, Candidate(event, o, s.value))
                 ELSE ScanActive(event, active, k + 1, best)

\* recommend.py:89: the loop over events from position e on.
RECURSIVE ScanEvents(_, _, _)
ScanEvents(evts, e, best) ==
    IF e > Len(evts) THEN [raises |-> "", best |-> best]
    ELSE LET r == ScanActive(evts[e], Active(evts[e]), 1, best) IN
         IF r.raises # "" THEN r ELSE ScanEvents(evts, e + 1, r.best)

find_best_trade(evts) == ScanEvents(evts, 1, None)

(***************************************************************************)
(* Calls of score_outcome on its own (SpecScore).                          *)
(***************************************************************************)
ScorePrices == {0, 1, 2, 3, 10, 40, 50, 60, 89, 90, 91, 95, 100}

ScoreDeltas == {-200, 0, 1, 250, 500}

\* <<volume, volume_24hr>>
ScoreVolumes == {<<1202603, 59873>>, <<670, 402>>, <<670, 403>>, <<670, 0>>, <<0, 0>>}

EndDates ==
    { NoDate,
      EndDate("garbage", 0, ""),
      EndDate("iso", NOW + 240, "Z"),
      EndDate("iso", NOW + 24, "Z"),
      EndDate("iso", NOW + 71, "+00:00"),
      EndDate("iso", NOW + 72, "+00:00"),
      EndDate("iso", NOW + 74, "+05:00"),
      EndDate("iso", NOW + 240, ""),
      EndDate("iso", NOW + 24, "") }

ScoreEvents == {Event("e", v[1], v[2], d, <<>>) : v \in ScoreVolumes, d \in EndDates}

InitScore ==
    /\ scoreArgs \in {[called |-> FALSE, event |-> ev, outcome_name |-> "o", price |-> p, delta |-> d] :
                        ev \in ScoreEvents, p \in ScorePrices, d \in ScoreDeltas}
    /\ scoreRet = NoCall
    /\ bestRet = NoCall
    /\ events = <<>>
    /\ snapshot = <<>>
    /\ pc = "init"
    /\ sem = SEM_PERMITS
    /\ tasks = <<>>
    /\ awaitIdx = 1
    /\ issued = {}
    /\ writeLog = <<>>
    /\ allFailed = TRUE
    /\ cnt = IdleCnt

ScoreCall ==
    /\ ~scoreArgs.called
    /\ scoreArgs' = [scoreArgs EXCEPT !.called = TRUE]
    /\ scoreRet' = [called |-> TRUE,
                    ret |-> score_outcome(scoreArgs.event, scoreArgs.outcome_name,
                                          scoreArgs.price, scoreArgs.delta)]
    /\ UNCHANGED <<fillVars, cnt, bestRet>>

NextScore == ScoreCall

SpecScore == InitScore /\ [][NextScore]_vars

(***************************************************************************)
(* Calls of find_best_trade (SpecSelect).  An input is a run of at most    *)
(* MaxSelOutcomes outcomes, cut into markets and events, each event with   *)
(* one of the contexts below; names are the positions in the run.          *)
(***************************************************************************)
MaxSelOutcomes == 3

\* <<price, price_delta>>
SelOutcomeValues == {<<40, 500>>, <<60, 500>>, <<90, 500>>}

\* <<volume, volume_24hr, end_date>>
SelContexts ==
    { <<1202603, 59873, NoDate>>,
      <<670, 0, NoDate>>,
      <<670, 403, NoDate>>,
      <<670, 402, NoDate>>,
      <<1202603, 59873, EndDate("iso", NOW + 24, "Z")>>,
      <<1202603, 59873, EndDate("iso", NOW + 240, "")>> }

\* A cut before an outcome: it continues the market, opens a market of the
\* same event, or opens an event.
Cuts == {"outcome", "market", "event"}

RECURSIVE BuildEvents(_, _, _, _, _)
BuildEvents(vals, cuts, ctxs, k, acc) ==
    IF k > Len(vals) THEN acc
    ELSE LET o == Outcome(k, vals[k][1], vals[k][2], TokenId(0, 0, k))
             cut == IF k = 1 THEN "event" ELSE cuts[k - 1]
             e == Len(acc)
             ctx == ctxs[e + 1]
             next ==
                CASE cut = "event" ->
                        Append(acc, Event(e + 1, ctx[1], ctx[2], ctx[3], <<Market(<<e + 1, 1>>, <<o>>)>>))
                  [] cut = "market" ->
                        [acc EXCEPT ![e].markets = Append(@, Market(<<e, Len(@) + 1>>, <<o>>))]
                  [] OTHER ->
                        [acc EXCEPT ![e].markets[Len(acc[e].markets)].outcomes = Append(@, o)]
         IN BuildEvents(vals, cuts, ctxs, k + 1, next)

NumEvents(cuts) == 1 + Cardinality({k \in DOMAIN cuts : cuts[k] = "event"})

InitSelect ==
    /\ \E n \in 0..MaxSelOutcomes :
         \E vals \in [1..n -> SelOutcomeValues], cuts \in [1..n - 1 -> Cuts] :
            \E ctxs \in [1..NumEvents(cuts) -> SelContexts] :
                events = BuildEvents(vals, cuts, ctxs, 1, <<>>)
    /\ snapshot = events
    /\ bestRet = NoCall
    /\ scoreArgs = NoCall
    /\ scoreRet = NoCall
    /\ pc = "init"
    /\ sem = SEM_PERMITS
    /\ tasks = <<>>
    /\ awaitIdx = 1
    /\ issued = {}
    /\ writeLog = <<>>
    /\ allFailed = TRUE
    /\ cnt = IdleCnt

FindBestTrade ==
    /\ ~bestRet.called
    /\ bestRet' = [called |-> TRUE, ret |-> find_best_trade(events)]
    /\ UNCHANGED <<fillVars, cnt, scoreArgs, scoreRet>>

NextSelect == FindBestTrade

SpecSelect == InitSelect /\ [][NextSelect]_vars

(***************************************************************************)
(* Properties of the enrichment.                                           *)
(***************************************************************************)
Range(f) == {f[x] : x \in DOMAIN f}

\* Every outcome of the tree, as <<event, market, i>> with the code's 0-based i.
Positions(evts) ==
    UNION { UNION { {<<e, m, k - 1>> : k \in DOMAIN evts[e].markets[m].outcomes} :
                    m \in DOMAIN evts[e].markets } :
            e \in DOMAIN evts }

OutcomeAt(evts, p) == evts[p[1]].markets[p[2]].outcomes[p[3] + 1]

\* The outcomes the claims call eligible: positions 0..4 with a token.
EligiblePositions(evts) ==
    {p \in Positions(evts) : p[3] <= 4 /\ OutcomeAt(evts, p).token_id # EMPTY}

\* C1: during fill_price_deltas, for any number of eligible outcomes and any
\* interleaving of request starts and completions, the number of history
\* requests in flight never exceeds 20.
C1_InFlightAtMost20 == cnt.inflight <= 20

\* 50 eligible outcomes, 20 requests in flight, tasks waiting for a permit.
C1_Witness == cnt.n = 50 /\ cnt.inflight = 20 /\ cnt.created > 0 /\ cnt.done > 0

\* C2: fill_price_deltas is a barrier: when it returns, every task it created
\* has completed and the price_delta of every corresponding outcome has been
\* written with the task's result.
C2_Barrier ==
    pc = "returned" =>
        /\ \A t \in 1..Len(tasks) : tasks[t].state = "done"
        /\ \A t \in 1..Len(tasks) :
              /\ <<tasks[t].e, tasks[t].m, tasks[t].i>> \in Range(writeLog)
              /\ OutcomeAt(events, <<tasks[t].e, tasks[t].m, tasks[t].i>>).price_delta
                    = tasks[t].result.value
        /\ EligiblePositions(snapshot) \subseteq Range(writeLog)

C2_Witness ==
    /\ pc = "returned"
    /\ Len(tasks) >= 3
    /\ \E t \in 1..Len(tasks) : tasks[t].result.value > 0
    /\ \E t \in 1..Len(tasks) : tasks[t].result.value = 0

\* C3: if every history request fails (network error, bad status, timeout,
\* malformed body, fewer than 2 points), fill_price_deltas does not raise and
\* every outcome's price_delta is 0.0 afterwards.
C3_AllFailuresAreSoft ==
    allFailed =>
        /\ pc # "raised"
        /\ \A t \in 1..Len(tasks) : tasks[t].result.raises = ""
        /\ pc = "returned" => \A p \in Positions(events) : OutcomeAt(events, p).price_delta = 0

C3_Witness == pc = "returned" /\ allFailed /\ Len(tasks) >= 3 /\ Len(writeLog) = Len(tasks)

\* C4: requests are issued and price_delta is written only for outcomes at
\* positions 0..4 with a non-empty token_id; an outcome at position 5 or
\* later, or with an empty token_id, gets no request and keeps its delta.
C4_OnlyFirstFiveWithToken ==
    /\ issued \subseteq EligiblePositions(snapshot)
    /\ Range(writeLog) \subseteq EligiblePositions(snapshot)
    /\ \A p \in Positions(snapshot) \ EligiblePositions(snapshot) :
          OutcomeAt(events, p) = OutcomeAt(snapshot, p)
    /\ pc = "returned" => /\ issued = EligiblePositions(snapshot)
                          /\ Range(writeLog) = EligiblePositions(snapshot)

\* A market of seven outcomes is through: its three eligible outcomes are
\* written, its outcomes 5 and 6 have tokens and are untouched.
C4_Witness ==
    /\ pc = "returned"
    /\ \E p \in Positions(snapshot) :
          /\ p[3] = 6
          /\ OutcomeAt(snapshot, p).token_id # EMPTY
          /\ OutcomeAt(snapshot, <<p[1], p[2], 1>>).token_id = EMPTY
          /\ OutcomeAt(events, <<p[1], p[2], 3>>).price_delta # 0
          /\ OutcomeAt(events, p).price_delta = 0

\* C8: the limiter never leaks permits: the permits taken are the tasks
\* inside async with sem, whatever way each fetch ends, and all 20 permits
\* are back when fill_price_deltas returns.
C8_NoPermitLeak ==
    /\ sem >= 0
    /\ sem + cnt.inflight = 20
    /\ pc = "returned" => sem = 20

\* A batch larger than the limiter returned after every request failed.
C8_Witness == pc = "returned" /\ cnt.n > 20 /\ cnt.done = cnt.n /\ allFailed /\ sem = 20

(***************************************************************************)
(* Properties of the scorer and the selector.                              *)
(***************************************************************************)
\* C5: gate completeness: with price_delta <= 0, or price <= 0.02, or
\* price >= 0.90 (the prices 0.02 and 0.90 themselves included),
\* score_outcome returns exactly -999.0, whatever the event.
C5_GateCompleteness ==
    (scoreRet.called /\ (scoreArgs.delta <= 0 \/ scoreArgs.price <= 2 \/ scoreArgs.price >= 90))
        => scoreRet.ret = Return(SENTINEL)

\* The outcomes find_best_trade scores (0.02 < price < 0.90), each with its
\* event, its name (its place in the traversal) and what score_outcome gives.
ScoredOutcomes(evts) ==
    UNION { { [e |-> e, name |-> o.name,
               s |-> score_outcome(evts[e], o.name, o.price, o.price_delta)] :
              o \in {x \in Range(AllOutcomes(evts[e])) : 2 < x.price /\ x.price < 90} } :
            e \in DOMAIN evts }

Returned == bestRet.called /\ bestRet.ret.raises = ""

\* C6: a candidate find_best_trade returns has the maximum score over all
\* scored outcomes, and among the outcomes with that score, of the same or
\* of different events, it is the first in traversal order.
C6_FirstMaximumWins ==
    (Returned /\ bestRet.ret.best # None) =>
        LET b == bestRet.ret.best
            S == ScoredOutcomes(events)
        IN /\ \E x \in S : /\ x.name = b.outcome_name
                           /\ x.s.value = b.score
                           /\ events[x.e].slug = b.event_slug
           /\ \A x \in S : x.s.value <= b.score
           /\ \A x \in S : x.s.value = b.score => x.name >= b.outcome_name

\* The outcome returned replaced an earlier, lower one and kept its place
\* against a later outcome of another event with the same score.
C6_Witness ==
    /\ Returned
    /\ bestRet.ret.best # None
    /\ LET b == bestRet.ret.best
           S == ScoredOutcomes(events)
       IN /\ \E x \in S : /\ x.s.value = b.score
                          /\ x.name > b.outcome_name
                          /\ events[x.e].slug # b.event_slug
          /\ \E x \in S : x.s.value > 0 /\ x.s.value < b.score /\ x.name < b.outcome_name

\* C7: find_best_trade never returns a candidate whose score is <= 0 (so
\* never the sentinel), and it returns None exactly when no scored outcome
\* has a score > 0; it returns None for an empty event list.
C7_PositiveOrNone ==
    Returned =>
        LET b == bestRet.ret.best
            S == ScoredOutcomes(events)
        IN /\ b # None => (b.score > 0 /\ b.score # SENTINEL)
           /\ (b = None) <=> ~(\E x \in S : x.s.value > 0)
           /\ events = <<>> => b = None

\* None for an input whose scored outcomes are at 0 and at the sentinel.
C7_Witness ==
    /\ Returned
    /\ bestRet.ret.best = None
    /\ \E x \in ScoredOutcomes(events) : x.s.value = 0
    /\ \E x \in ScoredOutcomes(events) : x.s.value = SENTINEL

\* C9: whatever the volumes and whatever the end_date (absent, unparsable,
\* with an offset, without one), find_best_trade returns a Candidate or
\* None and raises nothing.
C9_NeverRaises == bestRet.called => bestRet.ret.raises = ""

\* C10: gate 4: for an outcome that passes gates 1-3, score_outcome returns
\* -999.0 when end_date is present, parses and lies less than 3 days after
\* now; when end_date is absent or does not parse, the score is the one
\* the same call gives with no end_date.
C10_Gate4 ==
    LET ev == scoreArgs.event
        d == ev.end_date
        passes == /\ scoreArgs.delta > 0
                  /\ 2 < scoreArgs.price /\ scoreArgs.price < 90
                  /\ 10 * ev.volume_24hr <= 6 * ev.volume
    IN (scoreRet.called /\ passes) =>
        /\ (d.kind = "iso" /\ (d.t - TzOffset(ReplaceZ(d).tz)) - NOW < THREE_DAYS)
              => scoreRet.ret = Return(SENTINEL)
        /\ d.kind \in {"empty", "garbage"}
              => /\ scoreRet.ret = score_outcome([ev EXCEPT !.end_date = NoDate], scoreArgs.outcome_name,
                                                 scoreArgs.price, scoreArgs.delta)
                 /\ scoreRet.ret = Return(Composite(ev, scoreArgs.price, scoreArgs.delta))

\* C11: gate 3: in an event with volume_24hr > 0.6 * volume, score_outcome
\* returns -999.0 for every outcome, whatever its price and delta, and
\* find_best_trade returns no candidate of that event; an event with
\* volume_24hr exactly 0.6 * volume is not gated by this rule: an outcome of
\* it that passes the other gates gets the composite score.
C11_Gate3 ==
    \A e \in DOMAIN events :
        LET ev == events[e] IN
        /\ 10 * ev.volume_24hr > 6 * ev.volume =>
              /\ \A o \in Range(AllOutcomes(ev)) :
                    score_outcome(ev, o.name, o.price, o.price_delta) = Return(SENTINEL)
              /\ \A p \in ScorePrices, d \in ScoreDeltas :
                    score_outcome(ev, "o", p, d) = Return(SENTINEL)
              /\ (Returned /\ bestRet.ret.best # None) => bestRet.ret.best.event_slug # ev.slug
        /\ (10 * ev.volume_24hr = 6 * ev.volume /\ ev.end_date = NoDate) =>
              \A o \in Range(AllOutcomes(ev)) :
                 (o.price_delta > 0 /\ 2 < o.price /\ o.price < 90) =>
                    /\ score_outcome(ev, o.name, o.price, o.price_delta)
                          = Return(Composite(ev, o.price, o.price_delta))
                    /\ Composite(ev, o.price, o.price_delta) > 0

\* The candidate returned is of an event at exactly 60 %, and an event above
\* 60 % with outcomes in the scored price range came before it.
C11_Witness ==
    /\ Returned
    /\ bestRet.ret.best # None
    /\ \E e1, e2 \in DOMAIN events :
          /\ e1 < e2
          /\ 10 * events[e1].volume_24hr > 6 * events[e1].volume
          /\ \E o \in Range(AllOutcomes(events[e1])) : 2 < o.price /\ o.price < 90 /\ o.price_delta > 0
          /\ 10 * events[e2].volume_24hr = 6 * events[e2].volume
          /\ events[e2].volume_24hr > 0
          /\ bestRet.ret.best.event_slug = events[e2].slug

\* The call returned a score and no gate fired.
PassedAllGates == scoreRet.called /\ scoreRet.ret.raises = "" /\ scoreRet.ret.value # SENTINEL

\* The score of the same call with the delta d, all else as in the call made.
ScoreWithDelta(d) ==
    score_outcome(scoreArgs.event, scoreArgs.outcome_name, scoreArgs.price, d)

\* C12 as stated: monotonicity: for an outcome that passes all gates, price
\* and 24h volume held fixed, for every 24h volume including 0, a larger
\* positive price_delta gives a strictly larger score.
C12_MonotonicAnyVolume ==
    PassedAllGates =>
        \A d \in ScoreDeltas :
            d > scoreArgs.delta =>
                /\ ScoreWithDelta(d).raises = ""
                /\ ScoreWithDelta(d).value > scoreRet.ret.value

\* C12, amended: for an outcome that passes all gates, price and 24h volume
\* held fixed, a larger positive price_delta gives a strictly larger score
\* when the 24h volume is positive; when it is 0 the score is 0.0 for every
\* positive delta.
C12_Monotonic ==
    PassedAllGates =>
        \A d \in ScoreDeltas :
            d > scoreArgs.delta =>
                /\ ScoreWithDelta(d).raises = ""
                /\ scoreArgs.event.volume_24hr > 0 => ScoreWithDelta(d).value > scoreRet.ret.value
                /\ scoreArgs.event.volume_24hr = 0 =>
                      (scoreRet.ret.value = 0 /\ ScoreWithDelta(d).value = 0)

\* A call with the middle delta at a price off the centre, in an event with
\* 24h volume: a smaller and a larger positive delta exist.
C12_Witness ==
    /\ PassedAllGates
    /\ scoreArgs.event.volume_24hr > 0
    /\ scoreArgs.price = 89
    /\ \E d \in ScoreDeltas : d > scoreArgs.delta
    /\ \E d \in ScoreDeltas : d > 0 /\ d < scoreArgs.delta
    /\ scoreRet.ret.value > 0

\* C13: fill_price_deltas processes only the first 5 outcomes per event: for
\* every event, whatever its number of markets, at most 5 history requests
\* are issued and at most 5 of its outcomes have their price_delta written.
\* (The batch is one event: the requests issued are the tasks that left
\* "created", the writes are the iterations of the await loop.)
C13_AtMostFivePerEvent ==
    Len(events) = 1 =>
        /\ cnt.n - cnt.created <= FIRST_N
        /\ cnt.awaited <= FIRST_N

\* C14: termination of the enrichment: when every request sent resolves and
\* scheduling is fair, every task created gets a permit and completes and
\* fill_price_deltas returns, also with more than 20 eligible outcomes; a
\* request that has not resolved holds one permit and no more: a waiting
\* task can take a permit whenever fewer than 20 requests are in flight.
C14_Terminates ==
    /\ <>(pc = "returned" /\ cnt.created = 0 /\ cnt.inflight = 0 /\ cnt.done = cnt.n)
    /\ []((cnt.created > 0 /\ cnt.inflight < SEM_PERMITS) => ENABLED BatchAcquire)

\* More tasks than permits: the call returned after requests of both kinds.
C14_Witness ==
    /\ pc = "returned"
    /\ cnt.n = FIRST_N * MaxFairMarkets
    /\ cnt.n > SEM_PERMITS
    /\ cnt.done = cnt.n
    /\ cnt.awaited = cnt.n
    /\ ~allFailed

\* The tasks whose request is for the token of the outcome at p.
TasksOfToken(p) == {t \in 1..Len(tasks) : tasks[t].token_id = OutcomeAt(snapshot, p).token_id}

TaskTarget(t) == <<tasks[t].e, tasks[t].m, tasks[t].i>>

\* C15: completion order is irrelevant and failures are isolated: whatever
\* the interleaving, once fill_price_deltas has returned every eligible
\* outcome holds the result of the one request made for its own token_id
\* (the delta computed, or 0.0 for a failure); and at any moment an outcome
\* already written holds its own task's result and an outcome not yet
\* written holds what the snapshot gave, whichever other requests have
\* failed or completed meanwhile.
C15_OwnResultWhateverOrder ==
    /\ pc = "returned" =>
          \A p \in EligiblePositions(snapshot) :
              /\ Cardinality(TasksOfToken(p)) = 1
              /\ \A t \in TasksOfToken(p) :
                    /\ tasks[t].state = "done"
                    /\ tasks[t].result.raises = ""
                    /\ OutcomeAt(events, p).price_delta = tasks[t].result.value
    /\ pc = "await" =>
          \A p \in EligiblePositions(snapshot) :
              \A t \in TasksOfToken(p) :
                  IF t < awaitIdx
                  THEN OutcomeAt(events, p).price_delta = tasks[t].result.value
                  ELSE OutcomeAt(events, p) = OutcomeAt(snapshot, p)

\* Returned with a zero, a fall and a rise at three outcomes in a row.
C15_Witness ==
    /\ pc = "returned"
    /\ \E t \in 1..Len(tasks) - 2 :
          /\ tasks[t].result.value = 0
          /\ tasks[t + 1].result.value < 0
          /\ tasks[t + 2].result.value > 0
          /\ OutcomeAt(events, TaskTarget(t)).price_delta = 0
          /\ OutcomeAt(events, TaskTarget(t + 1)).price_delta < 0
          /\ OutcomeAt(events, TaskTarget(t + 2)).price_delta > 0

\* Two outcomes, markets, events, trees that differ in price_delta at most.
SameButDelta(o1, o2) ==
    o1 = o2 \/ [o1 EXCEPT !.price_delta = 0] = [o2 EXCEPT !.price_delta = 0]

SameMarketButDeltas(m1, m2) ==
    \/ m1 = m2
    \/ /\ [m1 EXCEPT !.outcomes = <<>>] = [m2 EXCEPT !.outcomes = <<>>]
       /\ Len(m1.outcomes) = Len(m2.outcomes)
       /\ \A k \in DOMAIN m1.outcomes : SameButDelta(m1.outcomes[k], m2.outcomes[k])

SameEventButDeltas(e1, e2) ==
    \/ e1 = e2
    \/ /\ [e1 EXCEPT !.markets = <<>>] = [e2 EXCEPT !.markets = <<>>]
       /\ Len(e1.markets) = Len(e2.markets)
       /\ \A m \in DOMAIN e1.markets : SameMarketButDeltas(e1.markets[m], e2.markets[m])

OnlyDeltasDiffer(evts1, evts2) ==
    \/ evts1 = evts2
    \/ /\ Len(evts1) = Len(evts2)
       /\ \A e \in DOMAIN evts1 : SameEventButDeltas(evts1[e], evts2[e])

\* C17: write conflicts are impossible: no two tasks target the same
\* outcome, no outcome is written twice and at return every eligible outcome
\* has been written exactly once, and nothing but price_delta differs from
\* the tree that was passed in.
C17_NoWriteConflicts ==
    /\ \A t1, t2 \in 1..Len(tasks) : t1 # t2 => TaskTarget(t1) # TaskTarget(t2)
    /\ \A i, j \in 1..Len(writeLog) : i # j => writeLog[i] # writeLog[j]
    /\ pc = "returned" =>
          \A p \in EligiblePositions(snapshot) :
              Cardinality({i \in 1..Len(writeLog) : writeLog[i] = p}) = 1
    /\ OnlyDeltasDiffer(events, snapshot)

\* Four outcomes of two events written, each once, with a changed delta
\* among them.
C17_Witness ==
    /\ pc = "returned"
    /\ Len(writeLog) >= 4
    /\ \E i, j \in 1..Len(writeLog) : writeLog[i][1] # writeLog[j][1]
    /\ events # snapshot

\* A selector without the pre-filter of recommend.py:92: the loops of
\* find_best_trade over all_outcomes instead of active.
RECURSIVE ScanEventsUnfiltered(_, _, _)
ScanEventsUnfiltered(evts, e, best) ==
    IF e > Len(evts) THEN [raises |-> "", best |-> best]
    ELSE LET r == ScanActive(evts[e], AllOutcomes(evts[e]), 1, best) IN
         IF r.raises # "" THEN r ELSE ScanEventsUnfiltered(evts, e + 1, r.best)

\* C16: the pre-filter 0.02 < price < 0.90 mirrors gate 2 and only saves
\* work: for every input find_best_trade returns what a selector that
\* applies score_outcome to every outcome, with no pre-filter, returns (the
\* pre-filter removes only outcomes that gate 2 rejects).
C16_PrefilterOnlySavesWork ==
    bestRet.called => bestRet.ret = ScanEventsUnfiltered(events, 1, None)

====
